---- MODULE Spec2Model ----
(***************************************************************************)
(* MarketMiner: the price/discount/rating reconciler (preprocess_data) and *)
(* the dynamic schema builder (write_to_csv) of the two Scrapy spiders,    *)
(* AmazonSpider (src/scraping/amazon_scrapper.py) and FlipkartSpider       *)
(* (src/scraping/flipkart_scrapper.py).                                    *)
(*                                                                         *)
(* Texts are sequences of one-character strings, '' is <<>>.  A Python     *)
(* value that is an int or None is a sequence of at most one integer:      *)
(* None is <<>> and the int n is <<n>>.  A dict is a function on its keys. *)
(***************************************************************************)
EXTENDS Integers, Sequences, FiniteSets, TLC

(***************************************************************************)
(* Bounds of the model.                                                    *)
(***************************************************************************)
MaxPrice == 21
MaxDiscountUnits == 22
MaxItems == 3
MaxPages == 2

(***************************************************************************)
(* Characters and Python's str/int conversions.                            *)
(***************************************************************************)
Digits == <<"0", "1", "2", "3", "4", "5", "6", "7", "8", "9">>

DigitChars == {Digits[i] : i \in 1..10}

Whitespace == {" ", "\t"}

DigitVal(c) == (CHOOSE i \in 1..10 : Digits[i] = c) - 1

RECURSIVE int(_)
\* int(s) of a text of decimal digits
int(s) == IF s = <<>> THEN 0
          ELSE int(SubSeq(s, 1, Len(s) - 1)) * 10 + DigitVal(s[Len(s)])

RECURSIVE NatStr(_)
NatStr(n) == IF n < 10 THEN <<Digits[n + 1]>>
             ELSE NatStr(n \div 10) \o <<Digits[(n % 10) + 1]>>

\* str(n) of an int
str(n) == IF n < 0 THEN <<"-">> \o NatStr(0 - n) ELSE NatStr(n)

None == <<>>

Some(n) == <<n>>

\* str(v) if v is not None else ''
StrOrEmpty(v) == IF v = None THEN <<>> ELSE str(v[1])

\* the outcome of a call that raised ValueError
ValueError == <<"ValueError">>

(***************************************************************************)
(* re.sub(r'[^\d.]', '', s), re.sub(r'[^\d]', '', s), str.strip and        *)
(* re.sub(r'\s+', ' ', s).                                                 *)
(***************************************************************************)
KeepDigitsAndDots(s) == SelectSeq(s, LAMBDA c : c \in DigitChars \cup {"."})

KeepDigits(s) == SelectSeq(s, LAMBDA c : c \in DigitChars)

\* the index of the first character of s that is in cs, 0 if there is none
FirstIn(s, cs) ==
    IF \A i \in DOMAIN s : s[i] \notin cs THEN 0
    ELSE CHOOSE i \in DOMAIN s :
            s[i] \in cs /\ \A j \in 1..(i - 1) : s[j] \notin cs

\* the index of the first character of s that is not in cs, 0 if there is none
FirstNotIn(s, cs) ==
    IF \A i \in DOMAIN s : s[i] \in cs THEN 0
    ELSE CHOOSE i \in DOMAIN s :
            s[i] \notin cs /\ \A j \in 1..(i - 1) : s[j] \in cs

\* the index of the last character of s that is not in cs, 0 if there is none
LastNotIn(s, cs) ==
    IF \A i \in DOMAIN s : s[i] \in cs THEN 0
    ELSE CHOOSE i \in DOMAIN s :
            s[i] \notin cs /\ \A j \in (i + 1)..Len(s) : s[j] \in cs

LStrip(s) ==
    LET first == FirstNotIn(s, Whitespace)
    IN IF first = 0 THEN <<>> ELSE SubSeq(s, first, Len(s))

RStrip(s) == SubSeq(s, 1, LastNotIn(s, Whitespace))

strip(s) == RStrip(LStrip(s))

\* re.sub(r'\s+', ' ', s): every maximal run of whitespace becomes one space;
\* computed on the two halves of s, whose results share a space when a run
\* spans the cut
RECURSIVE CollapseWhitespace(_)
CollapseWhitespace(s) ==
    IF s = <<>> THEN <<>>
    ELSE IF Len(s) = 1 THEN (IF s[1] \in Whitespace THEN <<" ">> ELSE s)
    ELSE LET half == Len(s) \div 2
             left == CollapseWhitespace(SubSeq(s, 1, half))
             right == CollapseWhitespace(SubSeq(s, half + 1, Len(s)))
         IN IF left[Len(left)] = " " /\ right[1] = " "
            THEN left \o Tail(right) ELSE left \o right

(***************************************************************************)
(* float(s) of a text of digits and dots: ValueError unless it has a digit *)
(* and at most one dot; int() keeps the digits before the dot.             *)
(***************************************************************************)
CountDots(s) == Len(SelectSeq(s, LAMBDA c : c = "."))

\* the digits of s before its first dot
IntegerPart(s) ==
    LET dot == FirstIn(s, {"."})
    IN IF dot = 0 THEN s ELSE SubSeq(s, 1, dot - 1)

\* the decimal digits of the largest binary64, 1.797...e308: float() of a
\* text with more integer digits is inf
FloatMaxDigits == 309

OverflowError == <<"OverflowError">>

StripZeros(s) ==
    LET first == FirstNotIn(s, {"0"})
    IN IF first = 0 THEN <<>> ELSE SubSeq(s, first, Len(s))

\* str(int(float(s))) of a text of digits and dots: float() raises
\* ValueError for a text that is no number, int() raises OverflowError for inf
IntOfFloat(s) ==
    IF KeepDigits(s) = <<>> \/ CountDots(s) > 1 THEN ValueError
    ELSE IF Len(StripZeros(IntegerPart(s))) > FloatMaxDigits THEN OverflowError
    ELSE str(int(IntegerPart(s)))

(***************************************************************************)
(* Regular-expression searches of the rating and review extractors.        *)
(***************************************************************************)
RECURSIVE RunOf(_, _)
\* the longest prefix of s made of characters of cs
RunOf(s, cs) == IF s # <<>> /\ s[1] \in cs THEN <<s[1]>> \o RunOf(Tail(s), cs)
                ELSE <<>>

Drop(s, n) == SubSeq(s, n + 1, Len(s))

\* the text starts with '.' and a digit
HasFraction(s) == Len(s) >= 2 /\ s[1] = "." /\ s[2] \in DigitChars

RECURSIVE SearchDecimal(_)
\* re.search(r'(\d+\.\d+)', s): the first match, '' when there is none
SearchDecimal(s) ==
    IF s = <<>> THEN <<>>
    ELSE IF s[1] \in DigitChars
         THEN LET run == RunOf(s, DigitChars)
                  rest == Drop(s, Len(run))
              IN IF HasFraction(rest)
                 THEN run \o <<".">> \o RunOf(Tail(rest), DigitChars)
                 ELSE SearchDecimal(rest)
         ELSE SearchDecimal(Tail(s))

RECURSIVE SearchNumber(_)
\* re.search(r'(\d+(?:\.\d+)?)', s): the first match, '' when there is none
SearchNumber(s) ==
    IF s = <<>> THEN <<>>
    ELSE IF s[1] \in DigitChars
         THEN LET run == RunOf(s, DigitChars)
                  rest == Drop(s, Len(run))
              IN IF HasFraction(rest)
                 THEN run \o <<".">> \o RunOf(Tail(rest), DigitChars)
                 ELSE run
         ELSE SearchNumber(Tail(s))

RECURSIVE FirstRun(_, _)
\* re.findall(r'[\d,]+', s)[0] for cs the digits and the comma; <<>> when
\* findall returns no match
FirstRun(s, cs) == IF s = <<>> THEN <<>>
                   ELSE IF s[1] \in cs THEN RunOf(s, cs)
                   ELSE FirstRun(Tail(s), cs)

(***************************************************************************)
(* Python's round() of the three quotients of preprocess_data.  round()    *)
(* takes a binary64 value to the nearest integer, a tie to the even one.   *)
(***************************************************************************)
\* round(p / q) of the exact quotient, q > 0
RoundHalfEven(p, q) ==
    LET fl == p \div q
        r2 == 2 * (p - fl * q)
    IN IF r2 > q THEN fl + 1
       ELSE IF r2 < q THEN fl
       ELSE IF fl % 2 = 0 THEN fl ELSE fl + 1

\* The pairs (mrp_val, discount_val_num), mrp_val <= 30 and discount <= 200,
\* whose exact product mrp_val * (1 - discount_val_num / 100) ends in .5
\* while its binary64 evaluation lands just above, respectively just below.
ProductAboveTie ==
    {<<10, 95>>, <<10, 115>>, <<15, 70>>, <<15, 190>>, <<25, 42>>, <<25, 58>>,
     <<25, 82>>, <<25, 98>>, <<25, 114>>, <<25, 122>>, <<25, 138>>, <<30, 85>>,
     <<30, 145>>, <<30, 165>>}

ProductBelowTie ==
    {<<5, 110>>, <<10, 105>>, <<15, 90>>, <<15, 130>>, <<25, 78>>, <<25, 102>>,
     <<25, 110>>, <<25, 134>>, <<25, 158>>, <<30, 55>>, <<30, 135>>}

\* round(mrp_val * (1 - discount_val_num / 100))
expected_price(mrp_val, discount_val_num) ==
    LET p == mrp_val * (100 - discount_val_num)
    IN IF <<mrp_val, discount_val_num>> \in ProductAboveTie THEN (p \div 100) + 1
       ELSE IF <<mrp_val, discount_val_num>> \in ProductBelowTie THEN p \div 100
       ELSE RoundHalfEven(p, 100)

\* round((mrp_val - current_val) / mrp_val * 100), mrp_val > 0; below
\* mrp_val = 40 the binary64 value is on the side of the exact quotient
computed_discount(mrp_val, current_val) ==
    RoundHalfEven((mrp_val - current_val) * 100, mrp_val)

\* round(current_val / (1 - discount_val_num / 100)), discount_val_num # 100
computed_mrp(current_val, discount_val_num) ==
    IF discount_val_num < 100
    THEN RoundHalfEven(current_val * 100, 100 - discount_val_num)
    ELSE RoundHalfEven(0 - current_val * 100, discount_val_num - 100)

\* lower_bound <= current_val <= upper_bound for the bounds expected * 0.95
\* and expected * 1.05
WithinBand(current_val, expected) ==
    19 * expected <= 20 * current_val /\ 20 * current_val <= 21 * expected

(***************************************************************************)
(* The items: dicts built by parse_product.                                *)
(***************************************************************************)
AmazonItem(url, title, brand, mrp, current_price, discount, rating, reviews, specs) ==
    ("URL" :> url) @@ ("Title" :> title) @@ ("Brand" :> brand)
    @@ ("MRP" :> mrp) @@ ("Current Price" :> current_price)
    @@ ("Discount" :> discount) @@ ("Rating" :> rating)
    @@ ("Reviews" :> reviews) @@ ("specs" :> specs)

FlipkartItem(url, title, brand, mrp, current_price, discount, rating, ratings_count, reviews_count, specs) ==
    ("URL" :> url) @@ ("Title" :> title) @@ ("Brand" :> brand)
    @@ ("MRP" :> mrp) @@ ("Current Price" :> current_price)
    @@ ("Discount" :> discount) @@ ("Rating" :> rating)
    @@ ("Ratings Count" :> ratings_count)
    @@ ("Reviews Count" :> reviews_count) @@ ("specs" :> specs)

(***************************************************************************)
(* AmazonSpider: the text extractors and preprocess_data.            *)
(***************************************************************************)
\* clean_text(text): '' for a falsy text, else stripped with runs of
\* whitespace collapsed
Amazon_clean_text(text) ==
    IF text = <<>> THEN <<>> ELSE CollapseWhitespace(strip(text))

\* extract_price(price_text): ValueError of float() is caught
Amazon_extract_price(price_text) ==
    IF price_text = <<>> THEN <<>>
    ELSE LET r == IntOfFloat(KeepDigitsAndDots(price_text))
         IN IF r = ValueError THEN <<>> ELSE r

\* extract_discount(discount_text)
Amazon_extract_discount(discount_text) ==
    IF discount_text = <<>> THEN <<>> ELSE KeepDigits(discount_text)

\* extract_rating(rating_text)
Amazon_extract_rating(rating_text) ==
    IF rating_text = <<>> THEN <<>> ELSE SearchDecimal(rating_text)

\* extract_reviews_count(reviews_text)
Amazon_extract_reviews_count(reviews_text) ==
    IF reviews_text = <<>> THEN <<>>
    ELSE SelectSeq(FirstRun(reviews_text, DigitChars \cup {","}),
                   LAMBDA c : c # ",")

\* custom rules whose rule 1 sets MRP and keeps the scraped Discount
Amazon_custom_rules_keep_discount(t) ==
    LET rule1 == (t.mrp = None \/ t.mrp = Some(0))
                 /\ (t.current # None /\ t.current # Some(0))
        t1 == IF rule1 THEN [t EXCEPT !.mrp = t.current] ELSE t
        rule2 == t1.discount # None /\ t1.discount[1] < 0 /\ t1.mrp # None
    IN IF rule2 THEN [t1 EXCEPT !.current = t1.mrp, !.discount = Some(0)]
       ELSE t1

\* preprocess_data, custom rules 1 and 2, on t = [mrp, current, discount]
Amazon_custom_rules(t) ==
    LET rule1 == (t.mrp = None \/ t.mrp = Some(0))
                 /\ (t.current # None /\ t.current # Some(0))
        t1 == IF rule1 THEN [t EXCEPT !.mrp = t.current, !.discount = Some(0)]
              ELSE t
        rule2 == t1.discount # None /\ t1.discount[1] < 0 /\ t1.mrp # None
    IN IF rule2 THEN [t1 EXCEPT !.current = t1.mrp, !.discount = Some(0)]
       ELSE t1

\* a fill step that takes the discount of a zero MRP to be 0
Amazon_fill_missing_guess(t) ==
    LET t1 == IF t.current = None /\ t.mrp # None /\ t.discount # None
              THEN [t EXCEPT !.current =
                                Some(expected_price(t.mrp[1], t.discount[1]))]
              ELSE t
        t2 == IF t1.discount = None /\ t1.mrp # None /\ t1.current # None
              THEN [t1 EXCEPT !.discount =
                                 Some(IF t1.mrp[1] = 0 THEN 0
                                      ELSE computed_discount(t1.mrp[1], t1.current[1]))]
              ELSE t1
    IN IF t2.mrp = None /\ t2.current # None /\ t2.discount # None
          /\ t2.discount[1] # 100
       THEN [t2 EXCEPT !.mrp = Some(computed_mrp(t2.current[1], t2.discount[1]))]
       ELSE t2

\* preprocess_data, "Fill missing values based on available columns"
Amazon_fill_missing(t) ==
    LET t1 == IF t.current = None /\ t.mrp # None /\ t.discount # None
              THEN [t EXCEPT !.current =
                                Some(expected_price(t.mrp[1], t.discount[1]))]
              ELSE t
        t2 == IF t1.discount = None /\ t1.mrp # None /\ t1.current # None
                 /\ t1.mrp[1] # 0
              THEN [t1 EXCEPT !.discount =
                                 Some(computed_discount(t1.mrp[1], t1.current[1]))]
              ELSE t1
    IN IF t2.mrp = None /\ t2.current # None /\ t2.discount # None
          /\ t2.discount[1] # 100
       THEN [t2 EXCEPT !.mrp = Some(computed_mrp(t2.current[1], t2.discount[1]))]
       ELSE t2

\* a correction step that keeps every observed Current Price
Amazon_correct_current_keep(t) ==
    IF t.mrp # None /\ t.discount # None /\ t.current = None
    THEN [t EXCEPT !.current = Some(expected_price(t.mrp[1], t.discount[1]))]
    ELSE t

\* preprocess_data, "Correct Current Price if it deviates >5% from expected"
Amazon_correct_current(t) ==
    IF t.mrp # None /\ t.discount # None
    THEN LET expected == expected_price(t.mrp[1], t.discount[1])
         IN IF t.current # None
            THEN IF ~WithinBand(t.current[1], expected)
                 THEN [t EXCEPT !.current = Some(expected)] ELSE t
            ELSE [t EXCEPT !.current = Some(expected)]
    ELSE t

\* preprocess_data(item): the outcome is the returned item, or raised when a
\* call made outside the try blocks raised
Amazon_preprocess_data(item) ==
    LET cleaned == [f \in DOMAIN item |->
                       IF f \in {"Title", "Brand", "MRP", "Current Price", "Discount",
                                 "Rating", "Reviews"}
                       THEN Amazon_clean_text(item[f]) ELSE item[f]]
        mrp_val == Amazon_extract_price(cleaned["MRP"])
        current_val == Amazon_extract_price(cleaned["Current Price"])
        discount_val == Amazon_extract_discount(cleaned["Discount"])
        propagated == {mrp_val, current_val, discount_val}
                      \cap {ValueError, OverflowError} # {}
        t0 == [mrp |-> IF mrp_val # <<>> THEN Some(int(mrp_val)) ELSE None,
               current |-> IF current_val # <<>> THEN Some(int(current_val))
                           ELSE None,
               discount |-> IF discount_val # <<>> THEN Some(int(discount_val))
                            ELSE None]
        t == Amazon_correct_current(Amazon_fill_missing(Amazon_custom_rules(t0)))
    IN [raised |-> propagated,
        item |-> IF propagated THEN cleaned
                 ELSE [cleaned EXCEPT
                          !["MRP"] = StrOrEmpty(t.mrp),
                          !["Current Price"] = StrOrEmpty(t.current),
                          !["Discount"] = StrOrEmpty(t.discount),
                          !["Rating"] = Amazon_extract_rating(cleaned["Rating"]),
                          !["Reviews"] =
                              Amazon_extract_reviews_count(cleaned["Reviews"])]]

(***************************************************************************)
(* FlipkartSpider: the text extractors and preprocess_data.          *)
(***************************************************************************)
\* clean_text(text): '' for a falsy text, else stripped with runs of
\* whitespace collapsed
Flipkart_clean_text(text) ==
    IF text = <<>> THEN <<>> ELSE CollapseWhitespace(strip(text))

\* extract_price(price_text): ValueError of float() is caught
Flipkart_extract_price(price_text) ==
    IF price_text = <<>> THEN <<>>
    ELSE LET r == IntOfFloat(KeepDigitsAndDots(price_text))
         IN IF r = ValueError THEN <<>> ELSE r

\* extract_discount(discount_text)
Flipkart_extract_discount(discount_text) ==
    IF discount_text = <<>> THEN <<>> ELSE KeepDigits(discount_text)

\* extract_rating(rating_text)
Flipkart_extract_rating(rating_text) ==
    IF rating_text = <<>> THEN <<>>
    ELSE LET rating_value == SearchNumber(rating_text)
         IN IF rating_value = <<>> THEN <<>>
            ELSE IF CountDots(rating_value) = 0
                 THEN rating_value \o <<".", "0">>
                 ELSE rating_value

\* extract_reviews_count(reviews_text)
Flipkart_extract_reviews_count(reviews_text) ==
    IF reviews_text = <<>> THEN <<>>
    ELSE SelectSeq(FirstRun(reviews_text, DigitChars \cup {","}),
                   LAMBDA c : c # ",")

\* custom rules whose rule 1 applies to a missing MRP only, not to MRP 0
Flipkart_custom_rules_missing_only(t) ==
    LET rule1 == t.mrp = None /\ (t.current # None /\ t.current # Some(0))
        t1 == IF rule1 THEN [t EXCEPT !.mrp = t.current, !.discount = Some(0)]
              ELSE t
        rule2 == t1.discount # None /\ t1.discount[1] < 0 /\ t1.mrp # None
    IN IF rule2 THEN [t1 EXCEPT !.current = t1.mrp, !.discount = Some(0)]
       ELSE t1

\* preprocess_data, custom rules 1 and 2, on t = [mrp, current, discount]
Flipkart_custom_rules(t) ==
    LET rule1 == (t.mrp = None \/ t.mrp = Some(0))
                 /\ (t.current # None /\ t.current # Some(0))
        t1 == IF rule1 THEN [t EXCEPT !.mrp = t.current, !.discount = Some(0)]
              ELSE t
        rule2 == t1.discount # None /\ t1.discount[1] < 0 /\ t1.mrp # None
    IN IF rule2 THEN [t1 EXCEPT !.current = t1.mrp, !.discount = Some(0)]
       ELSE t1

\* preprocess_data, "Fill missing values based on available columns"
Flipkart_fill_missing(t) ==
    LET t1 == IF t.current = None /\ t.mrp # None /\ t.discount # None
              THEN [t EXCEPT !.current =
                                Some(expected_price(t.mrp[1], t.discount[1]))]
              ELSE t
        t2 == IF t1.discount = None /\ t1.mrp # None /\ t1.current # None
                 /\ t1.mrp[1] # 0
              THEN [t1 EXCEPT !.discount =
                                 Some(computed_discount(t1.mrp[1], t1.current[1]))]
              ELSE t1
    IN IF t2.mrp = None /\ t2.current # None /\ t2.discount # None
          /\ t2.discount[1] # 100
       THEN [t2 EXCEPT !.mrp = Some(computed_mrp(t2.current[1], t2.discount[1]))]
       ELSE t2

\* a correction step that trusts MRP and Current Price over Discount
Flipkart_correct_current_discount(t) ==
    IF t.mrp # None /\ t.discount # None
    THEN LET expected == expected_price(t.mrp[1], t.discount[1])
         IN IF t.current # None
            THEN IF ~WithinBand(t.current[1], expected) /\ t.mrp[1] # 0
                 THEN [t EXCEPT !.discount =
                                   Some(computed_discount(t.mrp[1], t.current[1]))]
                 ELSE t
            ELSE [t EXCEPT !.current = Some(expected)]
    ELSE t

\* preprocess_data, "Correct Current Price if it deviates >5% from expected"
Flipkart_correct_current(t) ==
    IF t.mrp # None /\ t.discount # None
    THEN LET expected == expected_price(t.mrp[1], t.discount[1])
         IN IF t.current # None
            THEN IF ~WithinBand(t.current[1], expected)
                 THEN [t EXCEPT !.current = Some(expected)] ELSE t
            ELSE [t EXCEPT !.current = Some(expected)]
    ELSE t

\* preprocess_data(item): the outcome is the returned item, or raised when a
\* call made outside the try blocks raised
Flipkart_preprocess_data(item) ==
    LET cleaned == [f \in DOMAIN item |->
                       IF f \in {"Title", "Brand", "MRP", "Current Price", "Discount",
                                 "Rating", "Ratings Count", "Reviews Count"}
                       THEN Flipkart_clean_text(item[f]) ELSE item[f]]
        mrp_val == Flipkart_extract_price(cleaned["MRP"])
        current_val == Flipkart_extract_price(cleaned["Current Price"])
        discount_val == Flipkart_extract_discount(cleaned["Discount"])
        propagated == {mrp_val, current_val, discount_val}
                      \cap {ValueError, OverflowError} # {}
        t0 == [mrp |-> IF mrp_val # <<>> THEN Some(int(mrp_val)) ELSE None,
               current |-> IF current_val # <<>> THEN Some(int(current_val))
                           ELSE None,
               discount |-> IF discount_val # <<>> THEN Some(int(discount_val))
                            ELSE None]
        t == Flipkart_correct_current(Flipkart_fill_missing(Flipkart_custom_rules(t0)))
    IN [raised |-> propagated,
        item |-> IF propagated THEN cleaned
                 ELSE [cleaned EXCEPT
                          !["MRP"] = StrOrEmpty(t.mrp),
                          !["Current Price"] = StrOrEmpty(t.current),
                          !["Discount"] = StrOrEmpty(t.discount),
                          !["Rating"] =
                              Flipkart_extract_rating(cleaned["Rating"]),
                          !["Ratings Count"] =
                              Flipkart_extract_reviews_count(cleaned["Ratings Count"]),
                          !["Reviews Count"] =
                              Flipkart_extract_reviews_count(cleaned["Reviews Count"])]]


(***************************************************************************)
(* State.  spider is the class of the spider.  pc, raw, rec, rec2 and      *)
(* raised follow one item through preprocess_data.  The other variables    *)
(* are a spider session: the pages argument, whether __init__ got past its *)
(* early return (initialized), the requests Scrapy has in flight, the      *)
(* attributes product_urls, all_spec_keys, items and scraped_count, the    *)
(* file written by write_to_csv and the exception closed() ended with.     *)
(***************************************************************************)
VARIABLES spider, pc, raw, rec, rec2, raised,
          pages, initialized, phase, requests, product_urls, all_spec_keys,
          items, scraped_count, csv, error

reconcileVars == <<pc, raw, rec, rec2, raised>>

sessionVars == <<pages, initialized, phase, requests, product_urls,
                 all_spec_keys, items, scraped_count, csv, error>>

vars == <<spider, pc, raw, rec, rec2, raised,
          pages, initialized, phase, requests, product_urls, all_spec_keys,
          items, scraped_count, csv, error>>

Spiders == {"amazon", "flipkart"}

preprocess_data(sp, item) ==
    IF sp = "amazon" THEN Amazon_preprocess_data(item)
    ELSE Flipkart_preprocess_data(item)

\* a price text of more digits than a binary64 holds
HugePriceText == [i \in 1..(FloatMaxDigits + 1) |-> "9"]

(***************************************************************************)
(* The raw field texts handed to preprocess_data by parse_product.         *)
(***************************************************************************)
DecoratedPriceTexts ==
    {<<"$">> \o str(MaxPrice) \o <<".", "9">>, <<"1", ",", "0">>,
     <<" ", "7", "\t">>, <<"N", "/", "A">>, <<".">>,
     <<"1", ".", "2", ".", "3">>, HugePriceText}

PriceTexts == {<<>>} \cup {str(n) : n \in 0..MaxPrice} \cup DecoratedPriceTexts

DecoratedDiscountTexts ==
    {<<"-", "2", "0", "%">>, <<"1", "2", ".", "5", "%">>, <<"3", "3">>,
     <<"o", "f", "f">>}

DiscountTexts ==
    {<<>>} \cup {str(5 * k) \o <<"%">> : k \in 0..MaxDiscountUnits}
    \cup DecoratedDiscountTexts

RatingTexts ==
    {<<>>, <<"4", ".", "5", " ", "o", "f", " ", "5">>, <<"4">>,
     <<"1", "2", ".", "5">>, <<"8", "5", "5", " ", "R">>, <<"5", ".", "0">>,
     <<"0", ".", "0">>, <<"n", "a">>}

ReviewTexts ==
    {<<>>, <<"1", "2", "0">>, <<"1", ",", "2", "3", "4", " ", "r">>, <<",">>,
     <<"n", "o">>}

TypicalRating == <<"4", ".", "5", " ", "o", "f", " ", "5">>

TypicalReviews == <<"1", "2", "0">>

RawItem(sp, mrp, current_price, discount, rating, reviews) ==
    IF sp = "amazon"
    THEN AmazonItem(<<"u">>, <<"T">>, <<"B">>, mrp, current_price, discount,
                    rating, reviews, <<>>)
    ELSE FlipkartItem(<<"u">>, <<"T">>, <<"B">>, mrp, current_price, discount,
                      rating, reviews, reviews, <<>>)

\* <<MRP, Current Price, Discount>> texts with prices of three and four
\* digits
ScenarioTriples ==
    {<<<<>>, str(999), <<>>>>,
     <<str(1000), <<>>, str(20)>>,
     <<str(1000), str(950), str(20)>>,
     <<str(1000), str(950), <<>>>>,
     <<str(100), str(150), <<>>>>,
     <<str(103), str(17), <<>>>>,
     <<str(1000), <<>>, str(150) \o <<"%">>>>}

\* items whose price texts vary, and items whose rating texts vary
RawItems(sp) ==
    {RawItem(sp, m, c, d, TypicalRating, TypicalReviews) :
        m \in PriceTexts, c \in PriceTexts, d \in DiscountTexts}
    \cup {RawItem(sp, t[1], t[2], t[3], TypicalRating, TypicalReviews) :
             t \in ScenarioTriples}
    \cup {RawItem(sp, str(MaxPrice), <<>>, <<>>, r, v) :
             r \in RatingTexts, v \in ReviewTexts}


(***************************************************************************)
(* Dicts, sorted() and the texts of the product pages.                     *)
(***************************************************************************)
Range(seq) == {seq[i] : i \in DOMAIN seq}

EmptyDict == <<>>

\* d.get(key, '')
Get(d, key) == IF key \in DOMAIN d THEN d[key] ELSE <<>>

\* d[key] = value
Put(d, key, value) == (key :> value) @@ d

\* del d[key]
Del(d, key) == [k \in DOMAIN d \ {key} |-> d[k]]

\* the characters of the model in code point order
CodePoints ==
    <<"\t", " ", "$", "%", ",", "-", ".", "/", "0", "1", "2", "3", "4", "5",
      "6", "7", "8", "9", "A", "B", "C", "D", "H", "L", "M", "N", "P", "R", "T",
      "U", "a", "c", "d", "e", "f", "g", "i", "l", "n", "o", "p", "r", "s",
      "t", "u", "v", "w">>

Ord(c) == CHOOSE i \in DOMAIN CodePoints : CodePoints[i] = c

RECURSIVE StrLess(_, _)
\* a < b of two str
StrLess(a, b) ==
    IF b = <<>> THEN FALSE
    ELSE IF a = <<>> THEN TRUE
    ELSE IF a[1] = b[1] THEN StrLess(Tail(a), Tail(b))
    ELSE Ord(a[1]) < Ord(b[1])

RECURSIVE sorted(_)
\* sorted(S) of a collection of distinct str
sorted(S) ==
    IF S = {} THEN <<>>
    ELSE LET least == CHOOSE x \in S : \A y \in S \ {x} : StrLess(x, y)
         IN <<least>> \o sorted(S \ {least})

placeholder == <<"N", "/", "A">>

DiscountPercent == <<"D", "i", "s", "c", "o", "u", "n", "t", " ", "%">>

\* the str of an item key, as a text
ColumnName(k) ==
    CASE k = "URL" -> <<"U", "R", "L">>
      [] k = "Title" -> <<"T", "i", "t", "l", "e">>
      [] k = "Brand" -> <<"B", "r", "a", "n", "d">>
      [] k = "MRP" -> <<"M", "R", "P">>
      [] k = "Current Price" -> <<"C", "u", "r", "r", "e", "n", "t", " ", "P", "r", "i", "c", "e">>
      [] k = "Discount" -> <<"D", "i", "s", "c", "o", "u", "n", "t">>
      [] k = "Rating" -> <<"R", "a", "t", "i", "n", "g">>
      [] k = "Reviews" -> <<"R", "e", "v", "i", "e", "w", "s">>
      [] k = "Ratings Count" -> <<"R", "a", "t", "i", "n", "g", "s", " ", "C", "o", "u", "n", "t">>
      [] k = "Reviews Count" -> <<"R", "e", "v", "i", "e", "w", "s", " ", "C", "o", "u", "n", "t">>

Brand == ColumnName("Brand")

Color == <<"C", "o", "l", "o", "r">>

\* the item key read for a column of the header
ColumnKey(field) ==
    CHOOSE k \in {"URL", "Title", "Brand", "MRP", "Current Price", "Discount",
                  "Rating", "Reviews", "Ratings Count", "Reviews Count"} :
        field = ColumnName(k)

(***************************************************************************)
(* AmazonSpider.write_to_csv.                                         *)
(***************************************************************************)
\* the constant fields with Title ahead of URL
Amazon_constant_fields_swapped ==
    <<ColumnName("Title"), ColumnName("URL"), ColumnName("Brand"),
      ColumnName("MRP"), ColumnName("Current Price"), DiscountPercent,
      ColumnName("Rating"), ColumnName("Reviews")>>

Amazon_constant_fields ==
    <<ColumnName("URL"), ColumnName("Title"), ColumnName("Brand"),
      ColumnName("MRP"), ColumnName("Current Price"), DiscountPercent,
      ColumnName("Rating"), ColumnName("Reviews")>>

\* the items whose specs are counted, total_items being their number:
\* self.items
Amazon_counted_items(its) == its

\* spec_counts[key] taken from the first counted item alone
Amazon_spec_counts_head(its, key) ==
    Cardinality({i \in DOMAIN Amazon_counted_items(its) :
                    LET specs == Amazon_counted_items(its)[i]["specs"]
                        value == Get(specs, key)
                    IN i = 1 /\ value # <<>> /\ strip(value) # <<>>})

\* spec_counts[key]: the counted items with a non-empty value for key
Amazon_spec_counts(its, key) ==
    Cardinality({i \in DOMAIN Amazon_counted_items(its) :
                    LET specs == Amazon_counted_items(its)[i]["specs"]
                        value == Get(specs, key)
                    IN value # <<>> /\ strip(value) # <<>>})

\* a threshold that asks for a value in every counted item
Amazon_threshold_all(its) == Len(Amazon_counted_items(its))

\* threshold
Amazon_threshold(its) ==
    LET total_items == Len(Amazon_counted_items(its))
    IN (4 * total_items) \div 10

\* unique_filtered_spec_keys
Amazon_filtered_spec_keys(its, keys) ==
    sorted({k \in keys : Amazon_spec_counts(its, k) >= Amazon_threshold(its)})

\* the rows loop skips an item: Brand missing or empty
Amazon_skipped(item) == strip(item["Brand"]) = <<>>

\* row[field] of a constant field
Amazon_constant_cell(item, field) ==
    LET val == IF field = DiscountPercent THEN item["Discount"] ELSE item[ColumnKey(field)]
    IN IF strip(val) = <<>> THEN placeholder ELSE val

\* row[key] without the placeholder
Amazon_spec_cell_raw(specs, key) == Get(specs, key)

\* row[key] of a spec key
Amazon_spec_cell(specs, key) ==
    LET sval == Get(specs, key)
    IN IF strip(sval) = <<>> THEN placeholder ELSE sval

\* the row dict of an item: the spec keys are assigned after the constant
\* fields
Amazon_row(item, spec_keys) ==
    [f \in Range(Amazon_constant_fields) \cup Range(spec_keys) |->
        IF f \in Range(spec_keys) THEN Amazon_spec_cell(item["specs"], f)
        ELSE Amazon_constant_cell(item, f)]

RECURSIVE Amazon_rows(_, _)
Amazon_rows(its, spec_keys) ==
    IF its = <<>> THEN <<>>
    ELSE IF Amazon_skipped(Head(its)) THEN Amazon_rows(Tail(its), spec_keys)
    ELSE <<Amazon_row(Head(its), spec_keys)>> \o Amazon_rows(Tail(its), spec_keys)

\* write_to_csv(): the file written, its header and its rows
Amazon_write_to_csv(its, keys) ==
    LET unique_filtered_spec_keys == Amazon_filtered_spec_keys(its, keys)
    IN [written |-> TRUE,
        header |-> Amazon_constant_fields \o unique_filtered_spec_keys,
        rows |-> Amazon_rows(its, unique_filtered_spec_keys)]

\* has_complete_pricing_data(item)
Flipkart_has_complete_pricing_data(item) ==
    /\ strip(item["MRP"]) # <<>>
    /\ strip(item["Current Price"]) # <<>>
    /\ strip(item["Discount"]) # <<>>

(***************************************************************************)
(* FlipkartSpider.write_to_csv.                                       *)
(***************************************************************************)
Flipkart_constant_fields ==
    <<ColumnName("URL"), ColumnName("Title"), ColumnName("Brand"),
      ColumnName("MRP"), ColumnName("Current Price"), DiscountPercent,
      ColumnName("Rating"), ColumnName("Ratings Count"),
      ColumnName("Reviews Count")>>

\* the items whose specs are counted, total_items being their number:
\* complete_pricing_items
Flipkart_counted_items(its) == SelectSeq(its, Flipkart_has_complete_pricing_data)

\* spec_counts[key]: the counted items with a non-empty value for key
Flipkart_spec_counts(its, key) ==
    Cardinality({i \in DOMAIN Flipkart_counted_items(its) :
                    LET specs == Flipkart_counted_items(its)[i]["specs"]
                        value == Get(specs, key)
                    IN value # <<>> /\ strip(value) # <<>>})

\* threshold
Flipkart_threshold(its) ==
    LET total_items == Len(Flipkart_counted_items(its))
    IN IF total_items > 0 THEN (4 * total_items) \div 10 ELSE 1

\* unique_filtered_spec_keys
Flipkart_filtered_spec_keys(its, keys) ==
    sorted({k \in keys : Flipkart_spec_counts(its, k) >= Flipkart_threshold(its)})

\* a rows loop that skips an item on its Brand only
Flipkart_skipped_brand_only(item) == strip(item["Brand"]) = <<>>

\* the rows loop skips an item: Brand missing or empty, or
\* incomplete pricing data
Flipkart_skipped(item) == strip(item["Brand"]) = <<>> \/ ~Flipkart_has_complete_pricing_data(item)

\* row[field] of a constant field
Flipkart_constant_cell(item, field) ==
    LET val == IF field = DiscountPercent THEN item["Discount"] ELSE item[ColumnKey(field)]
    IN IF strip(val) = <<>> THEN placeholder ELSE val

\* row[key] of a spec key
Flipkart_spec_cell(specs, key) ==
    LET sval == Get(specs, key)
    IN IF strip(sval) = <<>> THEN placeholder ELSE sval

\* the row dict of an item: the spec keys are assigned after the constant
\* fields
Flipkart_row(item, spec_keys) ==
    [f \in Range(Flipkart_constant_fields) \cup Range(spec_keys) |->
        IF f \in Range(spec_keys) THEN Flipkart_spec_cell(item["specs"], f)
        ELSE Flipkart_constant_cell(item, f)]

RECURSIVE Flipkart_rows(_, _)
Flipkart_rows(its, spec_keys) ==
    IF its = <<>> THEN <<>>
    ELSE IF Flipkart_skipped(Head(its)) THEN Flipkart_rows(Tail(its), spec_keys)
    ELSE <<Flipkart_row(Head(its), spec_keys)>> \o Flipkart_rows(Tail(its), spec_keys)

\* write_to_csv(): the file written, its header and its rows
Flipkart_write_to_csv(its, keys) ==
    LET unique_filtered_spec_keys == Flipkart_filtered_spec_keys(its, keys)
    IN [written |-> TRUE,
        header |-> Flipkart_constant_fields \o unique_filtered_spec_keys,
        rows |-> Flipkart_rows(its, unique_filtered_spec_keys)]

(***************************************************************************)
(* parse_product: the item built from a product page.  A page is what the  *)
(* selectors return: '' where a selector finds nothing, table and facts    *)
(* the <<key, value>> texts of the two specification layouts.              *)
(***************************************************************************)
\* the spec keys the loop over rows adds to all_spec_keys
Amazon_row_keys(rows) ==
    {Amazon_clean_text(r[1]) : r \in {x \in Range(rows) : x[1] # <<>> /\ x[2] # <<>>}}

RECURSIVE Amazon_table_rows(_, _)
\* the loop over spec_rows
Amazon_table_rows(rows, specs) ==
    IF rows = <<>> THEN specs
    ELSE LET key_element == Head(rows)[1]
             value_element == Head(rows)[2]
         IN Amazon_table_rows(Tail(rows),
                IF key_element # <<>> /\ value_element # <<>>
                THEN Put(specs, Amazon_clean_text(key_element),
                         Amazon_clean_text(value_element))
                ELSE specs)

RECURSIVE Amazon_fact_rows(_, _, _)
\* the loop over fact_rows, which drops the "Brand" spec of a branded item
\* after each row
Amazon_fact_rows(rows, specs, brand) ==
    IF rows = <<>> THEN specs
    ELSE LET key_element == Head(rows)[1]
             value_element == Head(rows)[2]
             specs1 == IF key_element # <<>> /\ value_element # <<>>
                       THEN Put(specs, Amazon_clean_text(key_element),
                                Amazon_clean_text(value_element))
                       ELSE specs
             specs2 == IF brand # <<>> /\ Brand \in DOMAIN specs1
                       THEN Del(specs1, Brand) ELSE specs1
         IN Amazon_fact_rows(Tail(rows), specs2, brand)

\* AmazonSpider.parse_product up to "Store the product data": the item and
\* the keys added to all_spec_keys
Amazon_parse_product(url, brand_from_card, page) ==
    LET brand == IF brand_from_card = <<>> /\ page.po_brand # <<>>
                 THEN Amazon_clean_text(page.po_brand) ELSE brand_from_card
        table_specs == Amazon_table_rows(page.table, EmptyDict)
        use_facts == DOMAIN table_specs = {}
        specs == IF use_facts THEN Amazon_fact_rows(page.facts, EmptyDict, brand)
                 ELSE table_specs
    IN [item |-> AmazonItem(url, page.title, brand,
                            Amazon_clean_text(page.mrp),
                            Amazon_clean_text(page.current_price),
                            Amazon_clean_text(page.discount),
                            Amazon_clean_text(page.rating),
                            Amazon_clean_text(page.reviews), specs),
        spec_keys |-> Amazon_row_keys(page.table)
                      \cup (IF use_facts THEN Amazon_row_keys(page.facts) ELSE {})]

\* what a chain of selectors leaves in its variable: the cleaned text of the
\* selector whose text is non-empty once cleaned, else the last text read
Flipkart_pick(text) ==
    IF Flipkart_clean_text(text) # <<>> THEN Flipkart_clean_text(text) ELSE text

\* the characters of [\w\-]
WordChars == Range(CodePoints) \ {"\t", " ", "$", "%", ",", ".", "/"}

RECURSIVE Flipkart_parse_specifications(_, _)
\* parse_specifications_type1 and parse_specifications_type2 (whose keys are
\* shorter than 50 characters): the specs of the rows
Flipkart_parse_specifications(rows, specs) ==
    IF rows = <<>> THEN specs
    ELSE LET key == Flipkart_pick(Head(rows)[1])
             value == Flipkart_pick(Head(rows)[2])
         IN Flipkart_parse_specifications(Tail(rows),
                IF key # <<>> /\ value # <<>> /\ Len(key) < 50
                THEN Put(specs, key, value) ELSE specs)

\* extract_mrp_properly(response), one price element on the page
Flipkart_extract_mrp_properly(mrp_text) ==
    LET price_num == Flipkart_extract_price(Flipkart_clean_text(mrp_text))
    IN IF price_num = OverflowError THEN <<>>
       ELSE IF price_num # <<>> THEN str(int(price_num)) ELSE <<>>

\* FlipkartSpider.parse_product up to "Store the product data": the item and
\* the keys added to all_spec_keys
Flipkart_parse_product(url, page) ==
    LET title == Flipkart_pick(page.title)
        title_brand == IF title # <<>> THEN RunOf(title, WordChars) ELSE <<>>
        specs_type1 == Flipkart_parse_specifications(page.table, EmptyDict)
        use_type2 == DOMAIN specs_type1 = {}
        specs == IF use_type2
                 THEN Flipkart_parse_specifications(page.facts, EmptyDict)
                 ELSE specs_type1
        brand == IF title_brand = <<>> /\ Brand \in DOMAIN specs
                 THEN specs[Brand] ELSE title_brand
    IN [item |-> FlipkartItem(url, title, brand,
                              Flipkart_extract_mrp_properly(page.mrp),
                              Flipkart_clean_text(page.current_price),
                              Flipkart_clean_text(page.discount),
                              Flipkart_extract_rating(page.rating),
                              Flipkart_extract_reviews_count(page.reviews),
                              Flipkart_extract_reviews_count(page.reviews),
                              specs),
        spec_keys |-> DOMAIN specs_type1
                      \cup (IF use_type2 THEN DOMAIN specs ELSE {})]

(***************************************************************************)
(* The site: product URLs, the brand snippets of the search cards and the  *)
(* product pages.                                                          *)
(***************************************************************************)
ProductUrls == {<<"p">> \o str(u) : u \in 1..MaxItems}

SearchUrl(page) == <<"s">> \o str(page)

HP == <<"H", "P">>

CardBrands == {<<>>, HP}

LaptopPage ==
    [title |-> <<"H", "P", " ", "1", "5">>, po_brand |-> <<>>,
     mrp |-> <<"$", "2", "0">>, current_price |-> <<"1", "5">>,
     discount |-> <<"2", "5", "%">>, rating |-> TypicalRating,
     reviews |-> TypicalReviews,
     table |-> << <<Color, <<"R", "e", "d">>>> >>, facts |-> <<>>]

FactsPage ==
    [title |-> <<>>, po_brand |-> <<>>, mrp |-> <<>>, current_price |-> <<>>,
     discount |-> <<>>, rating |-> <<>>, reviews |-> <<>>, table |-> <<>>,
     facts |-> << <<Brand, <<"D", "e", "l", "l">>>>, <<Color, <<" ">>>> >>]

AnonPage ==
    [title |-> <<" ">>, po_brand |-> <<" ", "D", "e", "l", "l">>, mrp |-> <<>>,
     current_price |-> <<"1", "5">>, discount |-> <<>>, rating |-> <<>>,
     reviews |-> <<>>, table |-> <<>>, facts |-> <<>>]

\* a page whose price text has more digits than a binary64 holds
HugePricePage ==
    [title |-> <<"H", "P", " ", "1", "5">>, po_brand |-> <<>>, mrp |-> <<>>,
     current_price |-> HugePriceText, discount |-> <<>>, rating |-> <<>>,
     reviews |-> <<>>, table |-> << <<Color, <<"R", "e", "d">>>> >>,
     facts |-> <<>>]

ProductPages == {LaptopPage, FactsPage, AnonPage, HugePricePage}

(***************************************************************************)
(* Spec: a spider session, from the constructed spider to closed().        *)
(***************************************************************************)
NoFile == [written |-> FALSE, header |-> <<>>, rows |-> <<>>]

Request(callback, page, url, brand_from_card) ==
    [callback |-> callback, page |-> page, url |-> url,
     brand_from_card |-> brand_from_card]

write_to_csv(sp, its, keys) ==
    IF sp = "amazon" THEN Amazon_write_to_csv(its, keys)
    ELSE Flipkart_write_to_csv(its, keys)

\* __init__(query, pages): with pages None or < 1 it returns before setting
\* pages, product_urls, all_spec_keys, items and scraped_count
Init ==
    /\ spider \in Spiders
    /\ pages \in {None} \cup {Some(n) : n \in 0..MaxPages}
    /\ initialized = (pages # None /\ pages[1] >= 1)
    /\ phase = "constructed"
    /\ requests = {}
    /\ product_urls = {}
    /\ all_spec_keys = {}
    /\ items = <<>>
    /\ scraped_count = 0
    /\ csv = NoFile
    /\ error = "none"
    /\ pc = "idle"
    /\ raw = EmptyDict
    /\ rec = EmptyDict
    /\ rec2 = EmptyDict
    /\ raised = FALSE

\* start_requests(): one request per start URL
StartRequests ==
    /\ phase = "constructed"
    /\ phase' = "crawling"
    /\ requests' = IF initialized
                   THEN {Request("parse", 1, SearchUrl(1), <<>>)} ELSE {}
    /\ UNCHANGED <<spider, reconcileVars, pages, initialized, product_urls,
                   all_spec_keys, items, scraped_count, csv, error>>

\* parse(response) requesting every product URL of the page, seen or not
Amazon_parse_no_dedup ==
    /\ phase = "crawling"
    /\ spider = "amazon"
    /\ \E req \in requests, found \in SUBSET ProductUrls, has_next \in BOOLEAN :
          /\ req.callback = "parse"
          /\ \E cards \in [found -> CardBrands] :
                LET new == found
                    product_requests ==
                        {Request("parse_product", req.page, u, cards[u]) : u \in new}
                    next_requests ==
                        IF req.page < pages[1] /\ has_next
                        THEN {Request("parse", req.page + 1,
                                      SearchUrl(req.page + 1), <<>>)}
                        ELSE {}
                IN /\ product_urls' = product_urls \cup new
                   /\ requests' = (requests \ {req}) \cup product_requests
                                  \cup next_requests
    /\ UNCHANGED <<spider, reconcileVars, pages, initialized, phase,
                   all_spec_keys, items, scraped_count, csv, error>>

\* AmazonSpider.parse(response): found are the product URLs of the cards,
\* cards their brand snippets, has_next whether the page has a next link
Amazon_parse ==
    /\ phase = "crawling"
    /\ spider = "amazon"
    /\ \E req \in requests, found \in SUBSET ProductUrls, has_next \in BOOLEAN :
          /\ req.callback = "parse"
          /\ \E cards \in [found -> CardBrands] :
                LET new == found \ product_urls
                    product_requests ==
                        {Request("parse_product", req.page, u, cards[u]) : u \in new}
                    next_requests ==
                        IF req.page < pages[1] /\ has_next
                        THEN {Request("parse", req.page + 1,
                                      SearchUrl(req.page + 1), <<>>)}
                        ELSE {}
                IN /\ product_urls' = product_urls \cup new
                   /\ requests' = (requests \ {req}) \cup product_requests
                                  \cup next_requests
    /\ UNCHANGED <<spider, reconcileVars, pages, initialized, phase,
                   all_spec_keys, items, scraped_count, csv, error>>

\* parse_search_page(response) following up after the last page as well
Flipkart_parse_search_page_one_more ==
    /\ phase = "crawling"
    /\ spider = "flipkart"
    /\ \E req \in requests, found \in SUBSET ProductUrls :
          /\ req.callback = "parse"
          /\ LET new == found \ product_urls
                 product_requests ==
                     {Request("parse_product", req.page, u, <<>>) : u \in new}
                 next_requests ==
                     IF req.page <= pages[1]
                     THEN {Request("parse", req.page + 1,
                                   SearchUrl(req.page + 1), <<>>)}
                     ELSE {}
             IN /\ product_urls' = product_urls \cup new
                /\ requests' = (requests \ {req}) \cup product_requests
                               \cup next_requests
    /\ UNCHANGED <<spider, reconcileVars, pages, initialized, phase,
                   all_spec_keys, items, scraped_count, csv, error>>

\* FlipkartSpider.parse_search_page(response): found are the product links
Flipkart_parse_search_page ==
    /\ phase = "crawling"
    /\ spider = "flipkart"
    /\ \E req \in requests, found \in SUBSET ProductUrls :
          /\ req.callback = "parse"
          /\ LET new == found \ product_urls
                 product_requests ==
                     {Request("parse_product", req.page, u, <<>>) : u \in new}
                 next_requests ==
                     IF req.page < pages[1]
                     THEN {Request("parse", req.page + 1,
                                   SearchUrl(req.page + 1), <<>>)}
                     ELSE {}
             IN /\ product_urls' = product_urls \cup new
                /\ requests' = (requests \ {req}) \cup product_requests
                               \cup next_requests
    /\ UNCHANGED <<spider, reconcileVars, pages, initialized, phase,
                   all_spec_keys, items, scraped_count, csv, error>>

\* parse_product(response) counting the product before it is reconciled
ParseProduct_count_first ==
    /\ phase = "crawling"
    /\ \E req \in requests, page \in ProductPages :
          /\ req.callback = "parse_product"
          /\ LET parsed == IF spider = "amazon"
                           THEN Amazon_parse_product(req.url, req.brand_from_card, page)
                           ELSE Flipkart_parse_product(req.url, page)
                 out == preprocess_data(spider, parsed.item)
             IN /\ all_spec_keys' = all_spec_keys \cup parsed.spec_keys
                /\ items' = IF out.raised THEN items ELSE Append(items, out.item)
                /\ scraped_count' = scraped_count + 1
          /\ requests' = requests \ {req}
    /\ UNCHANGED <<spider, reconcileVars, pages, initialized, phase,
                   product_urls, csv, error>>

\* parse_product(response): the item is appended and counted unless
\* preprocess_data raises, which the handler of the try block prints
ParseProduct ==
    /\ phase = "crawling"
    /\ \E req \in requests, page \in ProductPages :
          /\ req.callback = "parse_product"
          /\ LET parsed == IF spider = "amazon"
                           THEN Amazon_parse_product(req.url, req.brand_from_card, page)
                           ELSE Flipkart_parse_product(req.url, page)
                 out == preprocess_data(spider, parsed.item)
             IN /\ all_spec_keys' = all_spec_keys \cup parsed.spec_keys
                /\ items' = IF out.raised THEN items ELSE Append(items, out.item)
                /\ scraped_count' = IF out.raised THEN scraped_count
                                    ELSE scraped_count + 1
          /\ requests' = requests \ {req}
    /\ UNCHANGED <<spider, reconcileVars, pages, initialized, phase,
                   product_urls, csv, error>>

\* parse_product(response) when the response has no text to select from:
\* the first statement of the try block raises and the handler prints it
ParseProductError ==
    /\ phase = "crawling"
    /\ \E req \in requests :
          /\ req.callback = "parse_product"
          /\ requests' = requests \ {req}
    /\ UNCHANGED <<spider, reconcileVars, pages, initialized, phase,
                   product_urls, all_spec_keys, items, scraped_count, csv, error>>

\* a request whose download fails for good: the requests carry no errback
DownloadFailed ==
    /\ phase = "crawling"
    /\ \E req \in requests : requests' = requests \ {req}
    /\ UNCHANGED <<spider, reconcileVars, pages, initialized, phase,
                   product_urls, all_spec_keys, items, scraped_count, csv, error>>

\* closed(reason) called while requests are still in flight
Closed_early ==
    /\ phase = "crawling"
    /\ phase' = "closed"
    /\ IF initialized
       THEN /\ csv' = write_to_csv(spider, items, all_spec_keys)
            /\ error' = error
       ELSE /\ csv' = csv
            /\ error' = "AttributeError"
    /\ UNCHANGED <<spider, reconcileVars, pages, initialized, requests,
                   product_urls, all_spec_keys, items, scraped_count>>

\* closed(reason), called once no request is left: write_to_csv(), which
\* reads self.items
Closed ==
    /\ phase = "crawling"
    /\ requests = {}
    /\ phase' = "closed"
    /\ IF initialized
       THEN /\ csv' = write_to_csv(spider, items, all_spec_keys)
            /\ error' = error
       ELSE /\ csv' = csv
            /\ error' = "AttributeError"
    /\ UNCHANGED <<spider, reconcileVars, pages, initialized, requests,
                   product_urls, all_spec_keys, items, scraped_count>>

Next ==
    \/ StartRequests
    \/ Amazon_parse
    \/ Flipkart_parse_search_page
    \/ ParseProduct
    \/ ParseProductError
    \/ DownloadFailed
    \/ Closed

Spec == Init /\ [][Next]_vars

(***************************************************************************)
(* SpecReconcile: preprocess_data applied to a raw item, and applied again *)
(* to the item it returned.                                                *)
(***************************************************************************)
ReconcileInit ==
    /\ spider \in Spiders
    /\ raw \in RawItems(spider)
    /\ pc = "raw"
    /\ rec = raw
    /\ rec2 = raw
    /\ raised = FALSE
    /\ pages = None
    /\ initialized = FALSE
    /\ phase = "none"
    /\ requests = {}
    /\ product_urls = {}
    /\ all_spec_keys = {}
    /\ items = <<>>
    /\ scraped_count = 0
    /\ csv = NoFile
    /\ error = "none"

Reconcile ==
    /\ pc = "raw"
    /\ LET out == preprocess_data(spider, raw)
       IN /\ rec' = out.item
          /\ raised' = out.raised
    /\ pc' = "reconciled"
    /\ UNCHANGED <<spider, raw, rec2, sessionVars>>

Refeed ==
    /\ pc = "reconciled"
    /\ ~raised
    /\ LET out == preprocess_data(spider, rec)
       IN /\ rec2' = out.item
          /\ raised' = out.raised
    /\ pc' = "refed"
    /\ UNCHANGED <<spider, raw, rec, sessionVars>>

ReconcileNext == Reconcile \/ Refeed

SpecReconcile == ReconcileInit /\ [][ReconcileNext]_vars

(***************************************************************************)
(* Reading a reconciled record.                                            *)
(***************************************************************************)
Abs(n) == IF n < 0 THEN 0 - n ELSE n

\* preprocess_data has returned a record
Returned == pc # "raw" /\ ~raised

\* the int written by str()
Num(t) == IF t[1] = "-" THEN 0 - int(Tail(t)) ELSE int(t)

Triangle(item) == <<item["MRP"], item["Current Price"], item["Discount"]>>

ReviewFields(sp) ==
    IF sp = "amazon" THEN {"Reviews"} ELSE {"Ratings Count", "Reviews Count"}

PlainPrices == {str(n) : n \in 1..MaxPrice}

\* a rating text d+.d+ whose value is at most 5
AtMostFive(rating) ==
    LET whole == int(IntegerPart(rating))
        fraction == Drop(rating, Len(IntegerPart(rating)) + 1)
    IN whole < 5 \/ (whole = 5 /\ \A i \in 1..Len(fraction) : fraction[i] = "0")

\* a price text, respectively a discount text, that cannot be coerced to a
\* number
UncoerciblePrice(t) == t # <<>> /\ (KeepDigits(t) = <<>> \/ CountDots(t) > 1)

UncoercibleDiscount(t) == t # <<>> /\ KeepDigits(t) = <<>>

\* the raw item with its uncoercible price and discount texts made absent
Blanked(item) ==
    [item EXCEPT
        !["MRP"] = IF UncoerciblePrice(@) THEN <<>> ELSE @,
        !["Current Price"] = IF UncoerciblePrice(@) THEN <<>> ELSE @,
        !["Discount"] = IF UncoercibleDiscount(@) THEN <<>> ELSE @]

(***************************************************************************)
(* Claims on the reconciler, checked under SpecReconcile.                  *)
(***************************************************************************)
\* C1 (as stated): Triangle consistency.  In every reconciled record with MRP
\* and Discount present, Current Price is present and
\* abs(CurrentPrice - E) <= 0.05 * E for E = round(MRP * (1 - Discount/100)).
C1_TriangleConsistency ==
    (Returned /\ rec["MRP"] # <<>> /\ rec["Discount"] # <<>>)
    => /\ rec["Current Price"] # <<>>
       /\ LET E == expected_price(Num(rec["MRP"]), Num(rec["Discount"]))
          IN 20 * Abs(Num(rec["Current Price"]) - E) <= E

\* C2 (as stated): the Discount of a reconciled record is never negative, and
\* when Current Price is greater than MRP, so that the discount computed from
\* the two would be negative, the record has Current Price = MRP, Discount = 0.
C2_DiscountNeverNegative ==
    Returned
    => /\ rec["Discount"] # <<>> => Num(rec["Discount"]) >= 0
       /\ (/\ raw["MRP"] \in PlainPrices
           /\ raw["Current Price"] \in PlainPrices
           /\ Num(raw["Current Price"]) > Num(raw["MRP"])
           /\ raw["Discount"] = <<>>)
          => /\ rec["Current Price"] = raw["MRP"]
             /\ rec["Discount"] = <<"0">>

\* C3: Missing-MRP repair.  When the MRP text holds no number and Current
\* Price is present and positive, the reconciled record has MRP = Current
\* Price and Discount = 0, whatever Discount text was scraped.
C3_MissingMrpRepair ==
    (/\ Returned
     /\ KeepDigits(raw["MRP"]) = <<>>
     /\ raw["Current Price"] \in PlainPrices)
    => /\ rec["MRP"] = raw["Current Price"]
       /\ rec["Current Price"] = raw["Current Price"]
       /\ rec["Discount"] = <<"0">>

\* C3 witness: MRP absent, Current Price present, a scraped Discount of 20%,
\* reconciled to MRP = Current Price and Discount 0.
C3_Witness ==
    /\ pc = "reconciled"
    /\ raw["MRP"] = <<>>
    /\ raw["Current Price"] = str(MaxPrice)
    /\ raw["Discount"] = <<"2", "0", "%">>
    /\ Triangle(rec) = <<str(MaxPrice), str(MaxPrice), <<"0">>>>

\* C4 (as stated): Idempotence.  Feeding the reconciled MRP, Current Price and
\* Discount strings back into preprocess_data yields the same triple.
C4_Idempotence == (pc = "refed" /\ ~raised) => Triangle(rec2) = Triangle(rec)

\* C5 (as stated): the reconciler never fails.  preprocess_data returns a record without
\* raising for every raw item, and a price or discount text that cannot be
\* coerced to a number is treated as absent: the record is the one returned
\* for the item with that text absent.
C5_NeverFails ==
    pc = "reconciled"
    => /\ ~raised
       /\ rec = preprocess_data(spider, Blanked(raw)).item

\* C6 (as stated): Rating/Reviews default fill.  A missing Rating is emitted
\* as 0 and a missing Reviews as "0", so neither is ever empty in a
\* reconciled record.
C6_RatingReviewsDefaultFill ==
    Returned
    => /\ raw["Rating"] = <<>> => rec["Rating"] \in {<<"0">>, <<"0", ".", "0">>}
       /\ rec["Rating"] # <<>>
       /\ \A f \in ReviewFields(spider) :
             /\ raw[f] = <<>> => rec[f] = <<"0">>
             /\ rec[f] # <<>>

\* C9 (as stated): in every reconciled record Reviews, when present, is a
\* non-negative integer and Rating, when present, is within [0, 5].
C9_ReviewsRatingRange ==
    Returned
    => /\ \A f \in ReviewFields(spider) : KeepDigits(rec[f]) = rec[f]
       /\ rec["Rating"] # <<>> => AtMostFive(rec["Rating"])

\* C10 (as stated): in every reconciled record Discount is absent or an
\* integer percent within [0, 100], for any scraped Discount text.
C10_DiscountRange ==
    (Returned /\ rec["Discount"] # <<>>)
    => (0 <= Num(rec["Discount"]) /\ Num(rec["Discount"]) <= 100)

(***************************************************************************)
(* Reading the exported file.                                              *)
(***************************************************************************)
constant_fields(sp) ==
    IF sp = "amazon" THEN Amazon_constant_fields ELSE Flipkart_constant_fields

counted_items(sp, its) ==
    IF sp = "amazon" THEN Amazon_counted_items(its)
    ELSE Flipkart_counted_items(its)

spec_counts(sp, its, key) ==
    IF sp = "amazon" THEN Amazon_spec_counts(its, key)
    ELSE Flipkart_spec_counts(its, key)

\* the spec keys retained as columns of the written header
RetainedKeys == {csv.header[j] : j \in (Len(constant_fields(spider)) + 1)..Len(csv.header)}

\* ceil(0.4 * n)
Ceil40(n) == (4 * n + 9) \div 10

\* the item a row was written for
ItemOfRow(row) == CHOOSE it \in Range(items) : it["URL"] = row[ColumnName("URL")]

\* the value of the item under a constant column
ConstantValue(item, field) ==
    IF field = DiscountPercent THEN item["Discount"] ELSE item[ColumnKey(field)]

(***************************************************************************)
(* Claims on the schema builder, checked under Spec.                       *)
(***************************************************************************)
\* C7 (as stated): Schema threshold.  Every spec key k retained as a column
\* has count(k) >= ceil(0.4 * N), N the number of counted items and count(k)
\* the counted items with a non-empty, non-whitespace value for k.
C7_SchemaThreshold ==
    csv.written
    => \A k \in RetainedKeys :
          spec_counts(spider, items, k) >= Ceil40(Len(counted_items(spider, items)))

\* C8: Placeholder completeness.  Every emitted row has, for every column of
\* the header, a non-empty, non-whitespace value, and a constant field or
\* spec value that is missing, empty or whitespace-only is emitted as "N/A".
C8_PlaceholderCompleteness ==
    csv.written
    => \A i \in DOMAIN csv.rows :
          LET row == csv.rows[i]
              item == ItemOfRow(row)
          IN /\ \A j \in DOMAIN csv.header :
                   /\ csv.header[j] \in DOMAIN row
                   /\ strip(row[csv.header[j]]) # <<>>
             /\ \A k \in RetainedKeys :
                   strip(Get(item["specs"], k)) = <<>> => row[k] = placeholder
             /\ \A f \in Range(constant_fields(spider)) \ RetainedKeys :
                   strip(ConstantValue(item, f)) = <<>> => row[f] = placeholder

\* C8 witness: a written row whose missing Title and whose missing value of
\* a retained spec key are both "N/A", next to a Brand that is present.
C8_Witness ==
    /\ csv.written
    /\ \E i \in DOMAIN csv.rows, k \in RetainedKeys \ Range(constant_fields(spider)) :
          /\ csv.rows[i][ColumnName("Title")] = placeholder
          /\ csv.rows[i][k] = placeholder
          /\ csv.rows[i][Brand] = HP

\* the row-inclusion filter of a spider, on a reconciled item
Included(sp, item) ==
    /\ strip(item["Brand"]) # <<>>
    /\ sp = "flipkart"
       => item["MRP"] # <<>> /\ item["Current Price"] # <<>> /\ item["Discount"] # <<>>

\* the URLs of the included items, in append order
IncludedUrls ==
    LET included == SelectSeq(items, LAMBDA it : Included(spider, it))
    IN [i \in DOMAIN included |-> included[i]["URL"]]

\* the URL column of the rows, in the order written
RowUrls == [i \in DOMAIN csv.rows |-> csv.rows[i][ColumnName("URL")]]

\* C11: Row inclusion.  write_to_csv emits exactly one row per item whose
\* Brand is non-empty (Flipkart: and whose MRP, Current Price and Discount are
\* all present), no row for any other item, in append order.
C11_RowInclusion == csv.written => RowUrls = IncludedUrls

\* C11 witness: a Flipkart export of two rows next to an item left out although
\* its Brand is present, its pricing being incomplete.
C11_Witness ==
    /\ csv.written
    /\ spider = "flipkart"
    /\ Len(csv.rows) >= 2
    /\ \E i \in DOMAIN items :
          /\ strip(items[i]["Brand"]) # <<>>
          /\ items[i]["MRP"] = <<>>
          /\ items[i]["URL"] \notin Range(RowUrls)

\* the names of the constant columns as the claim of the column order lists
\* them
ListedFields(sp) ==
    IF sp = "amazon"
    THEN <<ColumnName("URL"), ColumnName("Title"), ColumnName("Brand"),
           ColumnName("MRP"), ColumnName("Current Price"),
           ColumnName("Discount"), ColumnName("Rating"), ColumnName("Reviews")>>
    ELSE <<ColumnName("URL"), ColumnName("Title"), ColumnName("Brand"),
           ColumnName("MRP"), ColumnName("Current Price"),
           ColumnName("Discount"), ColumnName("Rating"),
           ColumnName("Ratings Count"), ColumnName("Reviews Count")>>

\* the listed names with the sixth column headed "Discount %"
WrittenFields(sp) == [ListedFields(sp) EXCEPT ![6] = DiscountPercent]

\* the header starts with the names of fields and goes on with observed spec
\* keys only
StartsWith(fields) ==
    /\ Len(csv.header) >= Len(fields)
    /\ SubSeq(csv.header, 1, Len(fields)) = fields
    /\ \A j \in (Len(fields) + 1)..Len(csv.header) : csv.header[j] \in all_spec_keys

\* C12 (as stated): Key ordering.  The spec-key part of the header is sorted
\* and holds no key twice, and the full header holds no column name twice,
\* also when a spec key is spelled like a constant field.
C12_KeyOrdering ==
    csv.written
    => LET n == Len(constant_fields(spider))
       IN /\ \A i, j \in (n + 1)..Len(csv.header) :
                i < j => StrLess(csv.header[i], csv.header[j])
          /\ \A i, j \in DOMAIN csv.header : i # j => csv.header[i] # csv.header[j]

\* C13 (as stated): Column order.  The header starts with URL, Title, Brand,
\* MRP, Current Price, Discount, Rating, Reviews (Flipkart: Rating, Ratings
\* Count, Reviews Count), followed only by retained spec keys.
C13_ColumnOrderAsStated == csv.written => StartsWith(ListedFields(spider))

\* C13: Column order, the sixth column being headed "Discount %".  The header
\* starts with URL, Title, Brand, MRP, Current Price, Discount %, Rating,
\* Reviews (Flipkart: Rating, Ratings Count, Reviews Count), followed only by
\* retained spec keys, for every item list, the empty one included.
C13_ColumnOrder ==
    csv.written
    => /\ StartsWith(WrittenFields(spider))
       /\ \A j \in (Len(WrittenFields(spider)) + 1)..Len(csv.header) :
             spec_counts(spider, items, csv.header[j])
                 >= (IF spider = "amazon" THEN Amazon_threshold(items)
                     ELSE Flipkart_threshold(items))

\* C13 witness: a file written for an empty item list whose header is the
\* constant fields followed by an observed spec key.
C13_Witness ==
    /\ csv.written
    /\ items = <<>>
    /\ Len(csv.header) > Len(WrittenFields(spider))

(***************************************************************************)
(* The legs of the price triangle of a raw item.                           *)
(***************************************************************************)
\* the int of an extracted text, None for ''
Leg(text) == IF text = <<>> THEN None ELSE Some(int(text))

\* the MRP, Current Price and Discount extracted from the item
SuppliedLegs(sp, item) ==
    IF sp = "amazon"
    THEN [mrp |-> Leg(Amazon_extract_price(Amazon_clean_text(item["MRP"]))),
          current |-> Leg(Amazon_extract_price(Amazon_clean_text(item["Current Price"]))),
          discount |-> Leg(Amazon_extract_discount(Amazon_clean_text(item["Discount"])))]
    ELSE [mrp |-> Leg(Flipkart_extract_price(Flipkart_clean_text(item["MRP"]))),
          current |-> Leg(Flipkart_extract_price(Flipkart_clean_text(item["Current Price"]))),
          discount |-> Leg(Flipkart_extract_discount(Flipkart_clean_text(item["Discount"])))]

\* the legs after the repair pass: the custom rules and the leg fill
RepairedLegs(sp, item) ==
    IF sp = "amazon"
    THEN Amazon_fill_missing(Amazon_custom_rules(SuppliedLegs(sp, item)))
    ELSE Flipkart_fill_missing(Flipkart_custom_rules(SuppliedLegs(sp, item)))

(***************************************************************************)
(* Claims on the steps of the reconciler, checked under SpecReconcile.     *)
(***************************************************************************)
\* C15: Consistency correction.  When MRP, Current Price and Discount are all
\* present after the repair pass, the emitted Current Price is the observed
\* one if it lies in [0.95 * E, 1.05 * E], bounds included, and E otherwise,
\* for E = round(MRP * (1 - Discount/100)).
C15_ConsistencyCorrection ==
    Returned
    => LET t == RepairedLegs(spider, raw)
       IN (t.mrp # None /\ t.current # None /\ t.discount # None)
          => LET E == expected_price(t.mrp[1], t.discount[1])
                 observed == t.current[1]
             IN rec["Current Price"] =
                   str(IF 19 * E <= 20 * observed /\ 20 * observed <= 21 * E
                       THEN observed ELSE E)

\* C15 witness: MRP 1000, Current Price 950, Discount 20 reconciled to
\* Current Price 800.
C15_Witness ==
    /\ pc = "reconciled"
    /\ Triangle(raw) = <<str(1000), str(950), str(20)>>
    /\ Triangle(rec) = <<str(1000), str(800), str(20)>>

\* C16 (as stated): Leg fill.  With exactly MRP and Discount present the
\* reconciled Current Price is round(MRP * (1 - Discount/100)); with exactly
\* MRP (non-zero) and Current Price present the reconciled Discount is
\* round((MRP - CurrentPrice) / MRP * 100); the two supplied legs are emitted
\* unchanged.
C16_LegFill ==
    Returned
    => LET s == SuppliedLegs(spider, raw)
       IN /\ (s.mrp # None /\ s.discount # None /\ s.current = None)
             => Triangle(rec) =
                   <<str(s.mrp[1]), str(expected_price(s.mrp[1], s.discount[1])),
                     str(s.discount[1])>>
          /\ (s.mrp # None /\ s.mrp # Some(0) /\ s.current # None /\ s.discount = None)
             => Triangle(rec) =
                   <<str(s.mrp[1]), str(s.current[1]),
                     str(computed_discount(s.mrp[1], s.current[1]))>>

\* C19: Arithmetic degeneracy is skipped.  With Discount 100 and MRP and
\* Current Price absent, MRP and Current Price stay absent (and with Current
\* Price 0 no MRP is computed from the division by 1 - 100/100); with MRP 0,
\* Current Price 0 or absent and no Discount, no Discount is emitted; the
\* supplied legs are emitted as they were.
C19_DegeneracySkipped ==
    Returned
    => LET s == SuppliedLegs(spider, raw)
       IN /\ (s.discount = Some(100) /\ s.mrp = None /\ s.current = None)
             => Triangle(rec) = <<<<>>, <<>>, str(100)>>
          /\ (s.discount = Some(100) /\ s.mrp = None /\ s.current = Some(0))
             => Triangle(rec) = <<<<>>, str(0), str(100)>>
          /\ (s.mrp = Some(0) /\ s.current \in {None, Some(0)} /\ s.discount = None)
             => Triangle(rec) = <<str(0), StrOrEmpty(s.current), <<>>>>

\* C19 witness: an MRP of 0 next to a Current Price of 0 and no Discount,
\* reconciled to the same record, without a Discount.
C19_Witness ==
    /\ pc = "reconciled"
    /\ Triangle(raw) = <<str(0), str(0), <<>>>>
    /\ Triangle(rec) = <<str(0), str(0), <<>>>>

\* C20: MRP and Discount are trusted.  For every input whose MRP is present
\* and non-zero and from whose Discount text a number is extracted, the
\* reconciled MRP and Discount are the extracted numbers; only Current Price
\* may differ from the scraped value.
C20_MrpDiscountFrame ==
    Returned
    => LET s == SuppliedLegs(spider, raw)
       IN (s.mrp # None /\ s.mrp # Some(0) /\ s.discount # None)
          => /\ rec["MRP"] = str(s.mrp[1])
             /\ rec["Discount"] = str(s.discount[1])

\* C20 witness: MRP 20, Current Price 19, Discount 20% reconciled by
\* FlipkartSpider to MRP 20, Discount 20 and Current Price 16.
C20_Witness ==
    /\ pc = "reconciled"
    /\ spider = "flipkart"
    /\ Triangle(raw) = <<str(20), str(19), str(20) \o <<"%">>>>
    /\ Triangle(rec) = <<str(20), str(16), str(20)>>

(***************************************************************************)
(* Claims on the schema builder and the session, checked under Spec.       *)
(***************************************************************************)
\* the number of counted items
N == Len(counted_items(spider, items))

\* C14 (as stated): Threshold completeness.  Every observed spec key whose
\* non-empty count is at least ceil(0.4 * N) is retained as a column.
C14_ThresholdCompletenessAsStated ==
    csv.written
    => \A k \in all_spec_keys :
          spec_counts(spider, items, k) >= Ceil40(N) => k \in RetainedKeys

\* C14: Threshold completeness with at least one counted item.  When N >= 1,
\* every observed spec key whose non-empty count is at least ceil(0.4 * N) is
\* retained as a column; with N = 2 items of which exactly one carries
\* "Color", "Color" is retained.
C14_ThresholdCompleteness ==
    (csv.written /\ N >= 1)
    => \A k \in all_spec_keys :
          spec_counts(spider, items, k) >= Ceil40(N) => k \in RetainedKeys

\* C14 witness: two counted items of which exactly one carries "Color", and
\* "Color" is a column of the header.
C14_Witness ==
    /\ csv.written
    /\ N = 2
    /\ spec_counts(spider, items, Color) = 1
    /\ Color \in RetainedKeys

\* C17 (as stated): Eligibility policy.  The items counted for the threshold
\* are exactly the items that pass the row-inclusion filter of the spider, so
\* N equals the number of rows written.
C17_EligibilityPolicy ==
    csv.written
    => /\ counted_items(spider, items)
             = SelectSeq(items, LAMBDA it : Included(spider, it))
       /\ N = Len(csv.rows)

\* C18: Session ordering.  The file is written only by closed(), once, when no
\* callback of the session is pending; no item is appended once the file is
\* written, and the file written is the one built from every item appended
\* during the session.
C18_SessionOrdering ==
    /\ [][csv' # csv
          => (phase = "crawling" /\ phase' = "closed" /\ requests = {}
              /\ ~csv.written)]_vars
    /\ [][(csv.written \/ phase = "closed") => (items' = items /\ csv' = csv)]_vars
    /\ [](csv.written
          => (phase = "closed" /\ csv = write_to_csv(spider, items, all_spec_keys)))

\* C18 witness: a closed session whose file holds a row for each of two items
\* appended by parse_product callbacks.
C18_Witness ==
    /\ phase = "closed"
    /\ requests = {}
    /\ csv.written
    /\ Len(items) >= 2
    /\ Len(csv.rows) = Len(items)

(***************************************************************************)
(* Claims on the extractors, the crawl bookkeeping and the dashboard.      *)
(***************************************************************************)
\* the first number d+ or d+.d+ of a rating text, a bare integer written
\* with one decimal digit; '' when the text holds no digit
FirstNumberOneDecimal(text) ==
    LET number == SearchNumber(text)
    IN IF number = <<>> THEN <<>>
       ELSE IF CountDots(number) = 0 THEN number \o <<".", "0">>
       ELSE number

\* C21 (as stated): Rating extraction.  For every rating text, the reconciled
\* Rating of either spider is the first number of the text matching digits
\* with an optional fractional part, and a bare integer rating is emitted
\* with one decimal digit ("4" gives "4.0").
C21_RatingExtraction ==
    Returned => rec["Rating"] = FirstNumberOneDecimal(raw["Rating"])

\* C22: Progress counter.  After every parse_product callback, whether it
\* appended an item or caught an exception, scraped_count equals len(items);
\* scraped_count never decreases and grows by exactly one per appended item,
\* and the file written depends on the items and the observed keys only, not
\* on the counter.
C22_ProgressCounter ==
    /\ [](scraped_count = Len(items))
    /\ [][/\ scraped_count' >= scraped_count
          /\ scraped_count' - scraped_count = Len(items') - Len(items)
          /\ scraped_count' - scraped_count \in {0, 1}]_vars
    /\ [][csv' # csv => csv' = write_to_csv(spider, items, all_spec_keys)]_vars

\* C22 witness: an item was appended and counted, and another parse_product
\* callback recorded the key "Color" but raised before appending its item.
C22_Witness ==
    /\ scraped_count >= 1
    /\ scraped_count = Len(items)
    /\ all_spec_keys = {Color}
    /\ \A i \in 1..Len(items) : Color \notin DOMAIN items[i]["specs"]

\* the item list in the arrival order p
Arrival(p) == [i \in 1..Len(items) |-> items[p[i]]]

\* C23: Schema determinism under arrival order.  For the items and the
\* observed spec keys of a session, write_to_csv gives the same header and
\* the same set (and number) of rows for every order in which the items were
\* appended.
C23_ArrivalOrderDeterminism ==
    csv.written
    => \A p \in Permutations(1..Len(items)) :
          LET out == write_to_csv(spider, Arrival(p), all_spec_keys)
          IN /\ out.header = csv.header
             /\ Range(out.rows) = Range(csv.rows)
             /\ Len(out.rows) = Len(csv.rows)

\* C23 witness: a file written from three items, not all alike, with a
\* retained spec key, a spec key that was dropped and at least two rows.
C23_Witness ==
    /\ csv.written
    /\ Len(items) = 3
    /\ items[1] # items[2]
    /\ Len(csv.rows) >= 2
    /\ RetainedKeys # {}
    /\ RetainedKeys # all_spec_keys

\* the outcome of the spider sp on the price texts of the raw item
OutcomeOf(sp) ==
    preprocess_data(sp, RawItem(sp, raw["MRP"], raw["Current Price"],
                                raw["Discount"], raw["Rating"], <<>>))

\* C24: The two reconcilers are equivalent.  For every (MRP, Current Price,
\* Discount) text triple, AmazonSpider.preprocess_data and
\* FlipkartSpider.preprocess_data raise on the same inputs and otherwise
\* return the same (MRP, Current Price, Discount) triple, which is the triple
\* of the record returned.
C24_ReconcilersEquivalent ==
    pc # "raw"
    => /\ OutcomeOf("amazon").raised = OutcomeOf("flipkart").raised
       /\ raised = OutcomeOf("amazon").raised
       /\ ~raised => /\ Triangle(OutcomeOf("amazon").item)
                           = Triangle(OutcomeOf("flipkart").item)
                     /\ Triangle(rec) = Triangle(OutcomeOf("amazon").item)

\* C24 witness: FlipkartSpider returned a record whose MRP was 0 and was
\* set by rule 1 to the Current Price, as AmazonSpider does.
C24_Witness ==
    /\ Returned
    /\ spider = "flipkart"
    /\ raw["MRP"] = <<"0">>
    /\ raw["Current Price"] = str(MaxPrice)
    /\ Triangle(rec) = <<str(MaxPrice), str(MaxPrice), <<"0">>>>
    /\ Triangle(OutcomeOf("amazon").item) = Triangle(rec)

\* C25 (as stated): Constant fields survive spec-key collisions.  In every
\* row written, the value of each constant column is the item's reconciled
\* constant value, or "N/A" if that is empty, even when a retained spec key
\* has the name of the constant column.
C25_ConstantFieldsSurvive ==
    csv.written
    => \A i \in DOMAIN csv.rows :
          LET row == csv.rows[i]
              item == ItemOfRow(row)
          IN \A f \in Range(constant_fields(spider)) :
                row[f] = IF strip(ConstantValue(item, f)) = <<>> THEN placeholder
                         ELSE ConstantValue(item, f)

\* C26 (as stated): A spider constructed with pages None or < 1 issues no
\* request, and its closed() hook completes without error on the state left
\* by __init__, producing a header-only export.
C26_EmptySessionExport ==
    ~initialized
    => /\ requests = {}
       /\ phase = "closed"
          => /\ error = "none"
             /\ csv.written
             /\ csv.header = constant_fields(spider)
             /\ csv.rows = <<>>

\* the product requests in a set of requests
ProductRequests(rs) == {r \in rs : r.callback = "parse_product"}

\* C27: Product URL de-duplication.  product_urls only grows; the product
\* requests issued by a step are one for each URL the step adds to
\* product_urls and for no other URL, so no product URL is requested twice
\* in a session; and scraped_count <= |product_urls| in every state.
C27_UrlDeduplication ==
    /\ [][/\ product_urls \subseteq product_urls'
          /\ {r.url : r \in ProductRequests(requests' \ requests)}
                = product_urls' \ product_urls
          /\ Cardinality(ProductRequests(requests' \ requests))
                = Cardinality(product_urls' \ product_urls)]_vars
    /\ [](scraped_count <= Cardinality(product_urls))
    /\ [](\A r \in ProductRequests(requests) : r.url \in product_urls)

\* C27 witness: the callback of search page 2 has issued a product request
\* for a new URL after a product found on page 1 was scraped.
C27_Witness ==
    /\ \E r \in ProductRequests(requests) : r.page = 2
    /\ Cardinality(product_urls) >= 2
    /\ scraped_count >= 1
    /\ scraped_count < Cardinality(product_urls)

\* the search-page requests in a set of requests
SearchRequests(rs) == {r \in rs : r.callback = "parse"}

\* C28: Pagination is bounded and terminates.  For a spider constructed with
\* pages = P >= 1, every search-page request carries a page number in 1..P;
\* a step issues at most one search request, and only as the follow-up p + 1
\* of the page p < P whose callback it runs, so at most one search request
\* is in flight, their page numbers only grow, at most P search pages are
\* requested and the callback for page P schedules none.
C28_PaginationBounded ==
    /\ [](\A r \in SearchRequests(requests) :
             initialized /\ r.page \in 1..pages[1])
    /\ [](Cardinality(SearchRequests(requests)) <= 1)
    /\ [][\A r \in SearchRequests(requests' \ requests) :
             \/ phase = "constructed" /\ r.page = 1
             \/ \E done \in SearchRequests(requests \ requests') :
                   /\ done.page < pages[1]
                   /\ r.page = done.page + 1]_vars

\* C28 witness: with P >= 2 the callback for page P has issued a product
\* request and no search request is left.
C28_Witness ==
    /\ phase = "crawling"
    /\ initialized
    /\ pages[1] >= 2
    /\ SearchRequests(requests) = {}
    /\ \E r \in ProductRequests(requests) : r.page = pages[1]

\* C29 (as stated): The reconciled Current Price is never negative.  For
\* every input to preprocess_data, the emitted Current Price is absent or an
\* integer >= 0, including inputs whose Discount digits exceed 100.
C29_CurrentPriceNonNegative ==
    (Returned /\ rec["Current Price"] # <<>>) => Num(rec["Current Price"]) >= 0

(***************************************************************************)
(* insights/dashboard.py: the columns of an uploaded export.               *)
(***************************************************************************)
\* FIXED, the columns the dashboard always analyses
FIXED ==
    <<<<"t", "i", "t", "l", "e">>,
      <<"m", "r", "p">>,
      <<"c", "u", "r", "r", "e", "n", "t", "_", "p", "r", "i", "c", "e">>,
      <<"d", "i", "s", "c", "o", "u", "n", "t">>,
      <<"r", "a", "t", "i", "n", "g">>,
      <<"r", "e", "v", "i", "e", "w">>>>

UpperCase == <<"A", "B", "C", "D", "E", "F", "G", "H", "I", "J", "K", "L", "M", "N", "O", "P", "Q", "R", "S", "T", "U", "V", "W", "X", "Y", "Z">>

LowerCase == <<"a", "b", "c", "d", "e", "f", "g", "h", "i", "j", "k", "l", "m", "n", "o", "p", "q", "r", "s", "t", "u", "v", "w", "x", "y", "z">>

\* str.lower()
lower(s) ==
    [i \in 1..Len(s) |->
        IF s[i] \in Range(UpperCase)
        THEN LowerCase[CHOOSE j \in DOMAIN UpperCase : UpperCase[j] = s[i]]
        ELSE s[i]]

\* normalize_columns(df): the column names stripped, then lower-cased and
\* stripped again
normalize_columns(columns) ==
    [i \in 1..Len(columns) |-> strip(lower(strip(columns[i])))]

\* coerce_and_prepare(df): the url column is dropped and every column of
\* FIXED that is missing is created holding NaN in every row
coerce_and_prepare(columns) ==
    LET kept == SelectSeq(columns, LAMBDA c : c # <<"u", "r", "l">>)
        created == SelectSeq(FIXED, LAMBDA c : c \notin Range(kept))
    IN [columns |-> kept \o created, created |-> created]

\* C30 (as stated): Export/dashboard column agreement.  For a file written by
\* write_to_csv, after normalize_columns every fixed column the dashboard
\* analyses (title, mrp, current_price, discount, rating, review) is matched
\* by an exported column, so coerce_and_prepare creates none of them.
C30_DashboardColumnAgreement ==
    csv.written
    => coerce_and_prepare(normalize_columns(csv.header)).created = <<>>

====
